---------------------------- MODULE Spec2Model ----------------------------
(***************************************************************************)
(* Model of DataProc.py: the ion-chromatograph post-processing script.     *)
(*                                                                         *)
(* The script is one linear run over the *.txt files of the working        *)
(* directory: read every file, clean the frames, plot, look up the four    *)
(* standards, extract their peaks, fit three calibration lines, extract    *)
(* every sample's peaks, predict, comment, build the table, sort it and    *)
(* write it.  The state is the script's module-level variables plus the    *)
(* program position pc.                                                    *)
(*                                                                         *)
(* Conventions                                                             *)
(*  - a string (file name, sample name) is a sequence of code points;      *)
(*  - a real number is an exact rational [num, den], den > 0, in lowest    *)
(*    terms; conductance values are integers (instrument units);           *)
(*  - a data frame is [cols, len, idx_div, base, spikes]: len rows with    *)
(*    positional index 0..len-1, index label i/idx_div for row i, every    *)
(*    row holding the cells of base except the rows in DOMAIN spikes.      *)
(***************************************************************************)
EXTENDS Integers, Sequences, FiniteSets, TLC

VARIABLES
    dir,            \* the working directory: files in glob's discovery order
    pc,             \* program position
    err,            \* the unhandled exception that ended the run, or NoErr
    files, samples, \* line 31
    data,           \* line 34
    plots,          \* png files saved by line 51
    stds_indeces,   \* line 57
    stds_data,      \* line 61
    cl_cal, no3_cal, so4_cal,                       \* lines 67-69
    CalibCurve_cl, CalibCurve_no3, CalibCurve_so4,  \* lines 83-90
    cl_unk, no3_unk, so4_unk,                       \* lines 96-98
    cl_conc, no3_conc, so4_conc,                    \* lines 113-115
    cl_comm, no3_comm, so4_comm,                    \* lines 118-120
    results,        \* line 146
    it,             \* rows already consumed by the running for loop
    xlsx            \* the spreadsheets written by line 159, in order

vars == << dir, pc, err, files, samples, data, plots, stds_indeces, stds_data,
           cl_cal, no3_cal, so4_cal,
           CalibCurve_cl, CalibCurve_no3, CalibCurve_so4,
           cl_unk, no3_unk, so4_unk, cl_conc, no3_conc, so4_conc,
           cl_comm, no3_comm, so4_comm, results, it, xlsx >>

-----------------------------------------------------------------------------
(* Exact rational arithmetic (the script computes in float64).             *)

Abs(n) == IF n < 0 THEN -n ELSE n

RECURSIVE GCD(_, _)
GCD(a, b) == IF b = 0 THEN a ELSE GCD(b, a % b)

Rat(n, d) ==
    LET s == IF d < 0 THEN -1 ELSE 1
        g == GCD(Abs(n), Abs(d))
    IN  [num |-> (s * n) \div g, den |-> (s * d) \div g]

RInt(n)    == [num |-> n, den |-> 1]
RAdd(a, b) == Rat(a.num * b.den + b.num * a.den, a.den * b.den)
RSub(a, b) == Rat(a.num * b.den - b.num * a.den, a.den * b.den)
RMul(a, b) == Rat(a.num * b.num, a.den * b.den)
RDiv(a, b) == Rat(a.num * b.den, a.den * b.num)
RLess(a, b) == a.num * b.den < b.num * a.den

RECURSIVE RSum(_)
RSum(s) == IF s = << >> THEN RInt(0) ELSE RAdd(Head(s), RSum(Tail(s)))

RMean(s) == RDiv(RSum(s), RInt(Len(s)))

-----------------------------------------------------------------------------
(* Strings as sequences of code points.                                    *)

Dot == 46

ext_txt == << 46, 116, 120, 116 >>          \* ".txt"

EndsWith(s, suffix) ==
    /\ Len(s) >= Len(suffix)
    /\ SubSeq(s, Len(s) - Len(suffix) + 1, Len(s)) = suffix

\* glob.glob("*" + ext) on one directory entry: the name ends with ext and is
\* not a hidden file (a leading dot is never matched by "*").
GlobMatch(name, ext) ==
    /\ Len(name) >= 1
    /\ name[1] # Dot
    /\ EndsWith(name, ext)

\* os.path.splitext(val)[0]: cut at the last dot, unless that dot is one of
\* the leading dots of the name.
LastDot(s) ==
    LET dots == {i \in 1..Len(s) : s[i] = Dot}
    IN  IF dots = {} THEN 0 ELSE CHOOSE i \in dots : \A j \in dots : j <= i

splitext0(s) ==
    LET k == LastDot(s)
    IN  IF k = 0 \/ (\A j \in 1..k : s[j] = Dot) THEN s ELSE SubSeq(s, 1, k - 1)

\* str.__lt__: lexicographic order by code point, a proper prefix first.
RECURSIVE StrLess(_, _)
StrLess(a, b) ==
    IF b = << >> THEN FALSE
    ELSE IF a = << >> THEN TRUE
    ELSE IF Head(a) # Head(b) THEN Head(a) < Head(b)
    ELSE StrLess(Tail(a), Tail(b))

\* Mutant of ListIndex: a missing element reported as position 0.
ListIndex_MissingIsZero(s, x) ==
    LET hits == {i \in 1..Len(s) : s[i] = x}
    IN  IF hits = {} THEN 0
        ELSE (CHOOSE i \in hits : \A j \in hits : i <= j) - 1

\* list.index(x): the first position (0-based) holding x, or -1 for ValueError.
ListIndex(s, x) ==
    LET hits == {i \in 1..Len(s) : s[i] = x}
    IN  IF hits = {} THEN -1
        ELSE (CHOOSE i \in hits : \A j \in hits : i <= j) - 1


-----------------------------------------------------------------------------
(* Data frames.                                                            *)

\* A cell of the first column as read from the file: text made of `colons'
\* leading ':' characters followed by the numeric token `tok'.
TextCell(k, v) == [colons |-> k, tok |-> v]

\* x.lstrip(':') and pd.to_numeric on one cell (line 40).
lstrip(cell)     == [cell EXCEPT !.colons = 0]
to_numeric(cell) == cell.tok

\* The cells of row i (one per column).
RowCells(f, i) == IF i \in DOMAIN f.spikes THEN f.spikes[i] ELSE f.base

\* pd.read_csv(file, delim_whitespace=True, skiprows=4): the table below the
\* header, with a RangeIndex (label of row i is i).
read_csv(body) ==
    [cols |-> body.header, len |-> body.len, idx_div |-> 1,
     base |-> body.base, spikes |-> body.spikes]

CyclesPerMin == 60

\* One iteration of the housekeeping loop (lines 40-42).
FixRow(r) == [c \in DOMAIN r |-> IF c = 1 THEN to_numeric(lstrip(r[c])) ELSE r[c]]

Housekeep(n) ==
    [cols    |-> [c \in DOMAIN n.cols |-> IF c = 1 THEN "SpCond" ELSE n.cols[c]],
     len     |-> n.len,
     idx_div |-> n.idx_div * CyclesPerMin,
     base    |-> FixRow(n.base),
     spikes  |-> [i \in DOMAIN n.spikes |-> FixRow(n.spikes[i])]]

\* Elution windows in minutes (the slices of lines 74-76 and 103-105).
Win_cl  == [lo |-> RInt(5),     hi |-> RInt(7)]
Win_no3 == [lo |-> RInt(9),     hi |-> RInt(11)]
Win_so4 == [lo |-> Rat(25, 2),  hi |-> RInt(15)]

\* frame.loc[lo:hi, :] on the sorted index i/idx_div: the positions of the rows
\* whose label lies in [lo, hi], both ends included.
LocRows(f, w) ==
    LET first == (w.lo.num * f.idx_div + w.lo.den - 1) \div w.lo.den
        last  == (w.hi.num * f.idx_div) \div w.hi.den
    IN  {i \in first..last : i <= f.len - 1}

\* np.asarray(frame.loc[lo:hi, :]): every cell of every column of those rows.
LocValues(f, w) ==
    {RowCells(f, i)[c] : i \in LocRows(f, w), c \in DOMAIN f.cols}

\* np.max of a non-empty array.
np_max(S) == CHOOSE m \in S : \A v \in S : v <= m

-----------------------------------------------------------------------------
(* Calibration.                                                            *)

\* line 54
stds_known == << Rat(5, 2), RInt(5), RInt(10), RInt(20) >>

\* The standards' sample names, in the order of lines 57-58.
std1 == << 115, 116, 100, 49 >>
std2 == << 115, 116, 100, 50 >>
std3 == << 115, 116, 100, 51 >>
std4 == << 115, 116, 100, 52 >>
StdNames == << std1, std2, std3, std4 >>

Unfitted == [fitted |-> FALSE, coef |-> RInt(0), intercept |-> RInt(0)]

\* LinearRegression().fit(X, y) with one feature: centre X and y, solve the
\* least-squares problem (the minimum-norm solution, 0, when the centred X is
\* all zero), intercept from the means.
Fit(X, y) ==
    LET Xr       == [i \in DOMAIN X |-> RInt(X[i])]
        X_offset == RMean(Xr)
        y_offset == RMean(y)
        Xc       == [i \in DOMAIN X |-> RSub(Xr[i], X_offset)]
        yc       == [i \in DOMAIN y |-> RSub(y[i], y_offset)]
        Sxx      == RSum([i \in DOMAIN X |-> RMul(Xc[i], Xc[i])])
        Sxy      == RSum([i \in DOMAIN X |-> RMul(Xc[i], yc[i])])
        coef     == IF Sxx.num = 0 THEN RInt(0) ELSE RDiv(Sxy, Sxx)
    IN  [fitted |-> TRUE, coef |-> coef,
         intercept |-> RSub(y_offset, RMul(X_offset, coef))]

\* CalibCurve.predict(X): one value per row of X.
Predict(curve, X) ==
    [i \in DOMAIN X |-> RAdd(RMul(RInt(X[i]), curve.coef), curve.intercept)]

\* Mutants of Comment: the threshold value itself flagged; the comparison
\* turned around.
Comment_AtOrBelow(c) ==
    IF ~RLess(Rat(5, 2), c) THEN "below std1" ELSE ""

Comment_Above(c) ==
    IF RLess(Rat(5, 2), c) THEN "below std1" ELSE ""

\* The comment loops (lines 124-140).
below_std1 == Rat(5, 2)

Comment(c) == IF RLess(c, below_std1) THEN "below std1" ELSE ""

Comments(conc) == [i \in DOMAIN conc |-> Comment(conc[i])]

\* Molar masses (line 148).
Mass_cl  == Rat(35453, 1000)
Mass_no3 == Rat(620049, 10000)
Mass_so4 == Rat(9606, 100)

-----------------------------------------------------------------------------
(* The report.                                                             *)

AllLens(n) ==
    /\ Len(cl_unk) = n  /\ Len(no3_unk) = n  /\ Len(so4_unk) = n
    /\ Len(cl_conc) = n /\ Len(no3_conc) = n /\ Len(so4_conc) = n
    /\ Len(cl_comm) = n /\ Len(no3_comm) = n /\ Len(so4_comm) = n

\* Mutant of sort_index: the table left in discovery order.
sort_index_Skipped(s) == s

\* Mutant of ResultRow: the index labels taken from the reversed sample list.
ResultRow_ReversedIndex(i) ==
    [name     |-> samples[Len(samples) + 1 - i],
     Cl_peak  |-> cl_unk[i],  NO3_peak |-> no3_unk[i],  SO4_peak |-> so4_unk[i],
     Cl_ppm   |-> cl_conc[i], NO3_ppm  |-> no3_conc[i], SO4_ppm  |-> so4_conc[i],
     Cl_mmol  |-> RInt(0), NO3_mmol |-> RInt(0), SO4_mmol |-> RInt(0),
     Comm_Cl  |-> cl_comm[i], Comm_NO3 |-> no3_comm[i], Comm_SO4 |-> so4_comm[i]]

\* Row i of pd.DataFrame({...}, index=samples) (lines 146-150).
ResultRow(i) ==
    [name     |-> samples[i],
     Cl_peak  |-> cl_unk[i],  NO3_peak |-> no3_unk[i],  SO4_peak |-> so4_unk[i],
     Cl_ppm   |-> cl_conc[i], NO3_ppm  |-> no3_conc[i], SO4_ppm  |-> so4_conc[i],
     Cl_mmol  |-> RDiv(cl_conc[i], Mass_cl),
     NO3_mmol |-> RDiv(no3_conc[i], Mass_no3),
     SO4_mmol |-> RDiv(so4_conc[i], Mass_so4),
     Comm_Cl  |-> cl_comm[i], Comm_NO3 |-> no3_comm[i], Comm_SO4 |-> so4_comm[i]]

\* results.sort_index(): whole rows reordered by ascending index label.
RECURSIVE InsertRow(_, _)
InsertRow(r, s) ==
    IF s = << >> THEN << r >>
    ELSE IF StrLess(r.name, Head(s).name) THEN << r >> \o s
    ELSE << Head(s) >> \o InsertRow(r, Tail(s))

RECURSIVE sort_index(_)
sort_index(s) ==
    IF s = << >> THEN << >> ELSE InsertRow(Head(s), sort_index(Tail(s)))


-----------------------------------------------------------------------------
(* The run.                                                                *)

NoErr == [kind |-> "none", at |-> "", name |-> << >>, anion |-> ""]

\* ValueError of list.index: "'<name>' is not in list".
LookupError(n) == [kind |-> "ValueError", at |-> "lookup", name |-> n, anion |-> ""]

\* ValueError of np.max on a zero-size array.
EmptyMax(stage, n, a) == [kind |-> "ValueError", at |-> stage, name |-> n, anion |-> a]

\* Position after a for loop over n items is entered: its body, or what follows.
Enter(n, body, after) == IF n = 0 THEN after ELSE body

\* Position after iteration k (1-based) of a loop over n items.
Step(k, n, body, after) == IF k = n THEN after ELSE body

\* Mutant of PeakPass: an empty window yields the peak 0 instead of raising.
PeakPass_EmptyIsZero(f, cl, no3, so4) ==
    LET pk(w) == IF LocValues(f, w) = {} THEN 0 ELSE np_max(LocValues(f, w))
    IN  [cl |-> Append(cl, pk(Win_cl)), no3 |-> Append(no3, pk(Win_no3)),
         so4 |-> Append(so4, pk(Win_so4)), raised |-> ""]

\* One pass of a peak-analysis loop body (lines 74-76, 103-105) on frame f:
\* the three appends in order, stopping at the first empty window.
PeakPass(f, cl, no3, so4) ==
    LET vcl  == LocValues(f, Win_cl)
        vno3 == LocValues(f, Win_no3)
        vso4 == LocValues(f, Win_so4)
    IN  IF vcl = {} THEN [cl |-> cl, no3 |-> no3, so4 |-> so4, raised |-> "Cl"]
        ELSE IF vno3 = {} THEN
            [cl |-> Append(cl, np_max(vcl)), no3 |-> no3, so4 |-> so4,
             raised |-> "NO3"]
        ELSE IF vso4 = {} THEN
            [cl |-> Append(cl, np_max(vcl)), no3 |-> Append(no3, np_max(vno3)),
             so4 |-> so4, raised |-> "SO4"]
        ELSE
            [cl |-> Append(cl, np_max(vcl)), no3 |-> Append(no3, np_max(vno3)),
             so4 |-> Append(so4, np_max(vso4)), raised |-> ""]

Range4(p) == {p[k] : k \in 1..4}

\* Mutant of StdPositions: the standards taken in the order they were
\* discovered, not in the order std1..std4.
StdPositions_AsDiscovered(names) ==
    LET pos == [k \in 1..4 |-> ListIndex(names, StdNames[k])]
    IN  IF \E k \in 1..4 : pos[k] = -1 THEN pos
        ELSE [k \in 1..4 |->
                 CHOOSE v \in Range4(pos) :
                     Cardinality({w \in Range4(pos) : w < v}) = k - 1]

\* The 0-based positions in the sample list of std1, std2, std3, std4, in that
\* order (lines 57-58), each -1 when list.index raises.
StdPositions(names) == [k \in 1..4 |-> ListIndex(names, StdNames[k])]

\* line 31: files, samples = OutputList(".txt")
OutputList ==
    /\ pc = "OutputList"
    /\ LET names == [i \in DOMAIN dir |-> dir[i].name]
           seen  == SelectSeq(names, LAMBDA f : GlobMatch(f, ext_txt))
       IN  /\ files' = seen
           /\ samples' = [i \in DOMAIN seen |-> splitext0(seen[i])]
           /\ pc' = Enter(Len(seen), "read", "lookup")
    /\ it' = 0
    /\ UNCHANGED << dir, err, data, plots, stds_indeces, stds_data,
                    cl_cal, no3_cal, so4_cal,
                    CalibCurve_cl, CalibCurve_no3, CalibCurve_so4,
                    cl_unk, no3_unk, so4_unk, cl_conc, no3_conc, so4_conc,
                    cl_comm, no3_comm, so4_comm, results, xlsx >>

\* The body of the file whose name is f.
BodyOf(f) == (CHOOSE e \in {dir[i] : i \in DOMAIN dir} : e.name = f).body

\* lines 35-36, one iteration
ReadFile ==
    /\ pc = "read"
    /\ data' = Append(data, read_csv(BodyOf(files[it + 1])))
    /\ it' = IF it + 1 = Len(files) THEN 0 ELSE it + 1
    /\ pc' = Step(it + 1, Len(files), "read", "housekeeping")
    /\ UNCHANGED << dir, err, files, samples, plots, stds_indeces, stds_data,
                    cl_cal, no3_cal, so4_cal,
                    CalibCurve_cl, CalibCurve_no3, CalibCurve_so4,
                    cl_unk, no3_unk, so4_unk, cl_conc, no3_conc, so4_conc,
                    cl_comm, no3_comm, so4_comm, results, xlsx >>

\* lines 39-42, one iteration
Housekeeping ==
    /\ pc = "housekeeping"
    /\ data' = [data EXCEPT ![it + 1] = Housekeep(data[it + 1])]
    /\ it' = IF it + 1 = Len(data) THEN 0 ELSE it + 1
    /\ pc' = Step(it + 1, Len(data), "housekeeping", "plot")
    /\ UNCHANGED << dir, err, files, samples, plots, stds_indeces, stds_data,
                    cl_cal, no3_cal, so4_cal,
                    CalibCurve_cl, CalibCurve_no3, CalibCurve_so4,
                    cl_unk, no3_unk, so4_unk, cl_conc, no3_conc, so4_conc,
                    cl_comm, no3_comm, so4_comm, results, xlsx >>

\* lines 45-51, one iteration: the chart of sample it+1 is saved under its name
Plot ==
    /\ pc = "plot"
    /\ plots' = Append(plots, samples[it + 1])
    /\ it' = IF it + 1 = Len(data) THEN 0 ELSE it + 1
    /\ pc' = Step(it + 1, Len(data), "plot", "lookup")
    /\ UNCHANGED << dir, err, files, samples, data, stds_indeces, stds_data,
                    cl_cal, no3_cal, so4_cal,
                    CalibCurve_cl, CalibCurve_no3, CalibCurve_so4,
                    cl_unk, no3_unk, so4_unk, cl_conc, no3_conc, so4_conc,
                    cl_comm, no3_comm, so4_comm, results, xlsx >>

\* lines 57-58: the four lookups in order; the first missing name raises
Lookup ==
    /\ pc = "lookup"
    /\ LET pos     == StdPositions(samples)
           missing == {k \in 1..4 : pos[k] = -1}
       IN  IF missing = {}
           THEN /\ stds_indeces' = pos
                /\ pc' = "stds_data"
                /\ err' = err
           ELSE /\ stds_indeces' = stds_indeces
                /\ pc' = "error"
                /\ err' = LookupError(
                       StdNames[CHOOSE k \in missing : \A j \in missing : k <= j])
    /\ UNCHANGED << dir, files, samples, data, plots, stds_data,
                    cl_cal, no3_cal, so4_cal,
                    CalibCurve_cl, CalibCurve_no3, CalibCurve_so4,
                    cl_unk, no3_unk, so4_unk, cl_conc, no3_conc, so4_conc,
                    cl_comm, no3_comm, so4_comm, results, it, xlsx >>

\* line 61
SubsetStds ==
    /\ pc = "stds_data"
    /\ stds_data' = [k \in 1..4 |-> data[stds_indeces[k] + 1]]
    /\ pc' = "std_peak"
    /\ UNCHANGED << dir, err, files, samples, data, plots, stds_indeces,
                    cl_cal, no3_cal, so4_cal,
                    CalibCurve_cl, CalibCurve_no3, CalibCurve_so4,
                    cl_unk, no3_unk, so4_unk, cl_conc, no3_conc, so4_conc,
                    cl_comm, no3_comm, so4_comm, results, it, xlsx >>

\* lines 73-76, one iteration
StdPeak ==
    /\ pc = "std_peak"
    /\ LET r == PeakPass(stds_data[it + 1], cl_cal, no3_cal, so4_cal)
       IN  /\ cl_cal' = r.cl
           /\ no3_cal' = r.no3
           /\ so4_cal' = r.so4
           /\ IF r.raised = ""
              THEN /\ it' = IF it + 1 = 4 THEN 0 ELSE it + 1
                   /\ pc' = Step(it + 1, 4, "std_peak", "fit_cl")
                   /\ err' = err
              ELSE /\ it' = it
                   /\ pc' = "error"
                   /\ err' = EmptyMax("std_peak", StdNames[it + 1], r.raised)
    /\ UNCHANGED << dir, files, samples, data, plots, stds_indeces, stds_data,
                    CalibCurve_cl, CalibCurve_no3, CalibCurve_so4,
                    cl_unk, no3_unk, so4_unk, cl_conc, no3_conc, so4_conc,
                    cl_comm, no3_comm, so4_comm, results, xlsx >>

\* lines 78, 83-84
FitCl ==
    /\ pc = "fit_cl"
    /\ CalibCurve_cl' = Fit(cl_cal, stds_known)
    /\ pc' = "fit_no3"
    /\ UNCHANGED << dir, err, files, samples, data, plots, stds_indeces,
                    stds_data, cl_cal, no3_cal, so4_cal,
                    CalibCurve_no3, CalibCurve_so4,
                    cl_unk, no3_unk, so4_unk, cl_conc, no3_conc, so4_conc,
                    cl_comm, no3_comm, so4_comm, results, it, xlsx >>

\* lines 79, 86-87
FitNO3 ==
    /\ pc = "fit_no3"
    /\ CalibCurve_no3' = Fit(no3_cal, stds_known)
    /\ pc' = "fit_so4"
    /\ UNCHANGED << dir, err, files, samples, data, plots, stds_indeces,
                    stds_data, cl_cal, no3_cal, so4_cal,
                    CalibCurve_cl, CalibCurve_so4,
                    cl_unk, no3_unk, so4_unk, cl_conc, no3_conc, so4_conc,
                    cl_comm, no3_comm, so4_comm, results, it, xlsx >>

\* lines 80, 89-90
FitSO4 ==
    /\ pc = "fit_so4"
    /\ CalibCurve_so4' = Fit(so4_cal, stds_known)
    /\ pc' = Enter(Len(data), "unk_peak", "predict_cl")
    /\ UNCHANGED << dir, err, files, samples, data, plots, stds_indeces,
                    stds_data, cl_cal, no3_cal, so4_cal,
                    CalibCurve_cl, CalibCurve_no3,
                    cl_unk, no3_unk, so4_unk, cl_conc, no3_conc, so4_conc,
                    cl_comm, no3_comm, so4_comm, results, it, xlsx >>

\* lines 102-105, one iteration
UnkPeak ==
    /\ pc = "unk_peak"
    /\ LET r == PeakPass(data[it + 1], cl_unk, no3_unk, so4_unk)
       IN  /\ cl_unk' = r.cl
           /\ no3_unk' = r.no3
           /\ so4_unk' = r.so4
           /\ IF r.raised = ""
              THEN /\ it' = IF it + 1 = Len(data) THEN 0 ELSE it + 1
                   /\ pc' = Step(it + 1, Len(data), "unk_peak", "predict_cl")
                   /\ err' = err
              ELSE /\ it' = it
                   /\ pc' = "error"
                   /\ err' = EmptyMax("unk_peak", samples[it + 1], r.raised)
    /\ UNCHANGED << dir, files, samples, data, plots, stds_indeces, stds_data,
                    cl_cal, no3_cal, so4_cal,
                    CalibCurve_cl, CalibCurve_no3, CalibCurve_so4,
                    cl_conc, no3_conc, so4_conc,
                    cl_comm, no3_comm, so4_comm, results, xlsx >>

\* lines 108, 113
PredictCl ==
    /\ pc = "predict_cl"
    /\ cl_conc' = Predict(CalibCurve_cl, cl_unk)
    /\ pc' = "predict_no3"
    /\ UNCHANGED << dir, err, files, samples, data, plots, stds_indeces,
                    stds_data, cl_cal, no3_cal, so4_cal,
                    CalibCurve_cl, CalibCurve_no3, CalibCurve_so4,
                    cl_unk, no3_unk, so4_unk, no3_conc, so4_conc,
                    cl_comm, no3_comm, so4_comm, results, it, xlsx >>

\* lines 109, 114
PredictNO3 ==
    /\ pc = "predict_no3"
    /\ no3_conc' = Predict(CalibCurve_no3, no3_unk)
    /\ pc' = "predict_so4"
    /\ UNCHANGED << dir, err, files, samples, data, plots, stds_indeces,
                    stds_data, cl_cal, no3_cal, so4_cal,
                    CalibCurve_cl, CalibCurve_no3, CalibCurve_so4,
                    cl_unk, no3_unk, so4_unk, cl_conc, so4_conc,
                    cl_comm, no3_comm, so4_comm, results, it, xlsx >>

\* lines 110, 115
PredictSO4 ==
    /\ pc = "predict_so4"
    /\ so4_conc' = Predict(CalibCurve_so4, so4_unk)
    /\ pc' = "comment_cl"
    /\ UNCHANGED << dir, err, files, samples, data, plots, stds_indeces,
                    stds_data, cl_cal, no3_cal, so4_cal,
                    CalibCurve_cl, CalibCurve_no3, CalibCurve_so4,
                    cl_unk, no3_unk, so4_unk, cl_conc, no3_conc,
                    cl_comm, no3_comm, so4_comm, results, it, xlsx >>

\* lines 124-128, the whole loop
CommentCl ==
    /\ pc = "comment_cl"
    /\ cl_comm' = Comments(cl_conc)
    /\ pc' = "comment_no3"
    /\ UNCHANGED << dir, err, files, samples, data, plots, stds_indeces,
                    stds_data, cl_cal, no3_cal, so4_cal,
                    CalibCurve_cl, CalibCurve_no3, CalibCurve_so4,
                    cl_unk, no3_unk, so4_unk, cl_conc, no3_conc, so4_conc,
                    no3_comm, so4_comm, results, it, xlsx >>

\* lines 130-134, the whole loop
CommentNO3 ==
    /\ pc = "comment_no3"
    /\ no3_comm' = Comments(no3_conc)
    /\ pc' = "comment_so4"
    /\ UNCHANGED << dir, err, files, samples, data, plots, stds_indeces,
                    stds_data, cl_cal, no3_cal, so4_cal,
                    CalibCurve_cl, CalibCurve_no3, CalibCurve_so4,
                    cl_unk, no3_unk, so4_unk, cl_conc, no3_conc, so4_conc,
                    cl_comm, so4_comm, results, it, xlsx >>

\* lines 136-140, the whole loop
CommentSO4 ==
    /\ pc = "comment_so4"
    /\ so4_comm' = Comments(so4_conc)
    /\ pc' = "results"
    /\ UNCHANGED << dir, err, files, samples, data, plots, stds_indeces,
                    stds_data, cl_cal, no3_cal, so4_cal,
                    CalibCurve_cl, CalibCurve_no3, CalibCurve_so4,
                    cl_unk, no3_unk, so4_unk, cl_conc, no3_conc, so4_conc,
                    cl_comm, no3_comm, results, it, xlsx >>

\* lines 146-150: the columns must all be as long as the index
Results ==
    /\ pc = "results"
    /\ IF AllLens(Len(samples))
       THEN /\ results' = [i \in DOMAIN samples |-> ResultRow(i)]
            /\ pc' = "sort"
            /\ err' = err
       ELSE /\ results' = results
            /\ pc' = "error"
            /\ err' = [kind |-> "ValueError", at |-> "results",
                       name |-> << >>, anion |-> ""]
    /\ UNCHANGED << dir, files, samples, data, plots, stds_indeces,
                    stds_data, cl_cal, no3_cal, so4_cal,
                    CalibCurve_cl, CalibCurve_no3, CalibCurve_so4,
                    cl_unk, no3_unk, so4_unk, cl_conc, no3_conc, so4_conc,
                    cl_comm, no3_comm, so4_comm, it, xlsx >>

\* line 153
Sort ==
    /\ pc = "sort"
    /\ results' = sort_index(results)
    /\ pc' = "write"
    /\ UNCHANGED << dir, err, files, samples, data, plots, stds_indeces,
                    stds_data, cl_cal, no3_cal, so4_cal,
                    CalibCurve_cl, CalibCurve_no3, CalibCurve_so4,
                    cl_unk, no3_unk, so4_unk, cl_conc, no3_conc, so4_conc,
                    cl_comm, no3_comm, so4_comm, it, xlsx >>

\* Mutant of Write: the table is also written when the run has failed.
Write_EvenOnError ==
    /\ pc \in {"write", "error"}
    /\ xlsx = << >>
    /\ xlsx' = Append(xlsx, results)
    /\ pc' = IF pc = "error" THEN "error" ELSE "done"
    /\ UNCHANGED << dir, err, files, samples, data, plots, stds_indeces,
                    stds_data, cl_cal, no3_cal, so4_cal,
                    CalibCurve_cl, CalibCurve_no3, CalibCurve_so4,
                    cl_unk, no3_unk, so4_unk, cl_conc, no3_conc, so4_conc,
                    cl_comm, no3_comm, so4_comm, results, it >>

\* lines 156-159
Write ==
    /\ pc = "write"
    /\ xlsx' = Append(xlsx, results)
    /\ pc' = "done"
    /\ UNCHANGED << dir, err, files, samples, data, plots, stds_indeces,
                    stds_data, cl_cal, no3_cal, so4_cal,
                    CalibCurve_cl, CalibCurve_no3, CalibCurve_so4,
                    cl_unk, no3_unk, so4_unk, cl_conc, no3_conc, so4_conc,
                    cl_comm, no3_comm, so4_comm, results, it >>

Next ==
    \/ OutputList \/ ReadFile \/ Housekeeping \/ Plot
    \/ Lookup \/ SubsetStds \/ StdPeak
    \/ FitCl \/ FitNO3 \/ FitSO4
    \/ UnkPeak
    \/ PredictCl \/ PredictNO3 \/ PredictSO4
    \/ CommentCl \/ CommentNO3 \/ CommentSO4
    \/ Results \/ Sort \/ Write

-----------------------------------------------------------------------------
(* The working directories the run is started in.                          *)

MaxUnknowns == 1        \* unknown samples beside the standards (DirsByOrder)
MaxUnkPeak  == 2        \* largest peak of the unknown sample (DirsByPeaks)
TraceLen    == 1500     \* rows of a complete trace (25 minutes)

txt(stem) == stem \o ext_txt

u_S     == << 83 >>                         \* "S"
u_a     == << 97 >>                         \* "a"
u_std10 == << 115, 116, 100, 49, 48 >>      \* "std10"
a_png   == << 97, 46, 112, 110, 103 >>      \* "a.png", a chart of an earlier run

UnknownStems == {u_S, u_a, u_std10}
StdStems     == {std1, std2, std3, std4}

\* The row in the middle of a window of a cleaned trace.
MidRow(w) ==
    ((w.lo.num * w.hi.den + w.hi.num * w.lo.den) * CyclesPerMin)
        \div (2 * w.lo.den * w.hi.den)

\* A complete one-column trace: baseline 0 and one peak per window.
PeakBody(p) ==
    [header |-> << "uS/cm" >>, len |-> TraceLen, base |-> << TextCell(1, 0) >>,
     spikes |-> (MidRow(Win_cl)  :> << TextCell(1, p[1]) >>) @@
                (MidRow(Win_no3) :> << TextCell(1, p[2]) >>) @@
                (MidRow(Win_so4) :> << TextCell(1, p[3]) >>)]

\* The peaks (Cl, NO3, SO4) of the reference batch: each anion's standards on
\* one line, three different lines.
RefPeaks(stem) ==
    CASE stem = std1    -> << 1, 2, 3 >>
      [] stem = std2    -> << 2, 4, 4 >>
      [] stem = std3    -> << 4, 8, 6 >>
      [] stem = std4    -> << 8, 16, 10 >>
      [] stem = u_S     -> << 0, 1, 2 >>
      [] stem = u_a     -> << 2, 5, 12 >>
      [] stem = u_std10 -> << 5, 3, 3 >>

RefFile(stem) == [name |-> txt(stem), body |-> PeakBody(RefPeaks(stem))]

Perms(S) ==
    {p \in [1..Cardinality(S) -> S] :
        \A i, j \in 1..Cardinality(S) : i # j => p[i] # p[j]}

\* Any subset of the standards and up to MaxUnknowns unknowns of the reference
\* batch, discovered in any order.
DirsByOrder ==
    UNION {
        {[i \in DOMAIN p |-> RefFile(p[i])] : p \in Perms(stds \cup unks)} :
            stds \in SUBSET StdStems,
            unks \in {U \in SUBSET UnknownStems : Cardinality(U) <= MaxUnknowns}}

\* Peak heights of std1..std4 for one anion.
Profiles ==
    { << 1, 2, 4, 8 >>,     \* on the line conc = 2.5 * peak
      << 2, 3, 5, 9 >>,     \* on the line conc = 2.5 * (peak - 1)
      << 3, 3, 3, 3 >>,     \* one distinct peak height
      << 1, 2, 4, 16 >> }   \* std4 off the line of the other three

\* The standards with any profile per anion, one unknown with any peaks up to
\* MaxUnkPeak, and a file that is not a trace.
DirsByPeaks ==
    { LET S(k) == [name |-> txt(StdNames[k]),
                   body |-> PeakBody(<< c[k], n[k], s[k] >>)]
      IN  << S(3), [name |-> a_png, body |-> PeakBody(<< 9, 9, 9 >>)],
             [name |-> txt(u_a), body |-> PeakBody(u)], S(1), S(4), S(2) >> :
          c \in Profiles, n \in Profiles, s \in Profiles,
          u \in [1..3 -> 0..MaxUnkPeak] }

\* First and last row of a window of a cleaned trace, and their neighbours.
EdgeRows(w) ==
    LET first == (w.lo.num * CyclesPerMin + w.lo.den - 1) \div w.lo.den
        last  == (w.hi.num * CyclesPerMin) \div w.hi.den
    IN  {first - 1, first, last, last + 1}

AllEdgeRows == EdgeRows(Win_cl) \cup EdgeRows(Win_no3) \cup EdgeRows(Win_so4)

\* Trace lengths that end before, inside and after each window.
Lens == {240, 300, 301, 421, 600, 751, 901, TraceLen}

\* One extra column beside the conductance: none, or one holding a constant.
ExtraCols == { << >>, << 0 >>, << 9 >> }

\* Traces of every length in Lens, baseline 1, with at most one deviating row
\* next to a window edge, with or without an extra column.
EdgeSpikes(x) ==
    { << >> } \cup
    { r :> (<< TextCell(2, v) >> \o x) : r \in AllEdgeRows, v \in {0, 3} }

EdgeBodies ==
    UNION {
        { [header |-> << "uS/cm" >> \o [c \in DOMAIN x |-> "aux"],
           len    |-> l,
           base   |-> << TextCell(1, 1) >> \o x,
           spikes |-> sp] : l \in Lens, sp \in EdgeSpikes(x) } :
        x \in ExtraCols }

\* The reference batch with the trace of one sample (the unknown or std2)
\* replaced by any of EdgeBodies.
DirsByTrace ==
    { [i \in 1..5 |->
          LET stem == << std2, u_a, std4, std1, std3 >>[i]
          IN  IF stem = d THEN [name |-> txt(stem), body |-> b]
              ELSE RefFile(stem)] :
        d \in {u_a, std2}, b \in EdgeBodies }

Directories == DirsByOrder \cup DirsByPeaks \cup DirsByTrace

Init ==
    /\ dir \in Directories
    /\ pc = "OutputList"
    /\ err = NoErr
    /\ files = << >>
    /\ samples = << >>
    /\ data = << >>
    /\ plots = << >>
    /\ stds_indeces = << >>
    /\ stds_data = << >>
    /\ cl_cal = << >> /\ no3_cal = << >> /\ so4_cal = << >>
    /\ CalibCurve_cl = Unfitted
    /\ CalibCurve_no3 = Unfitted
    /\ CalibCurve_so4 = Unfitted
    /\ cl_unk = << >> /\ no3_unk = << >> /\ so4_unk = << >>
    /\ cl_conc = << >> /\ no3_conc = << >> /\ so4_conc = << >>
    /\ cl_comm = << >> /\ no3_comm = << >> /\ so4_comm = << >>
    /\ results = << >>
    /\ it = 0
    /\ xlsx = << >>

Spec == Init /\ [][Next]_vars

-----------------------------------------------------------------------------
(* Vocabulary of the properties.                                           *)

Anions == {"Cl", "NO3", "SO4"}

WinOf(a)   == CASE a = "Cl" -> Win_cl [] a = "NO3" -> Win_no3 [] a = "SO4" -> Win_so4
CalOf(a)   == CASE a = "Cl" -> cl_cal [] a = "NO3" -> no3_cal [] a = "SO4" -> so4_cal
UnkOf(a)   == CASE a = "Cl" -> cl_unk [] a = "NO3" -> no3_unk [] a = "SO4" -> so4_unk
ConcOf(a)  == CASE a = "Cl" -> cl_conc [] a = "NO3" -> no3_conc [] a = "SO4" -> so4_conc
CommOf(a)  == CASE a = "Cl" -> cl_comm [] a = "NO3" -> no3_comm [] a = "SO4" -> so4_comm
CurveOf(a) ==
    CASE a = "Cl" -> CalibCurve_cl [] a = "NO3" -> CalibCurve_no3
      [] a = "SO4" -> CalibCurve_so4

PeakIn(r, a) == CASE a = "Cl" -> r.Cl_peak [] a = "NO3" -> r.NO3_peak [] a = "SO4" -> r.SO4_peak
PpmIn(r, a)  == CASE a = "Cl" -> r.Cl_ppm [] a = "NO3" -> r.NO3_ppm [] a = "SO4" -> r.SO4_ppm
CommIn(r, a) == CASE a = "Cl" -> r.Comm_Cl [] a = "NO3" -> r.Comm_NO3 [] a = "SO4" -> r.Comm_SO4

Range(s) == {s[i] : i \in DOMAIN s}

\* The spreadsheet, once written.
Written == xlsx # << >>
Report  == xlsx[1]
ReportRow(n) == CHOOSE r \in Range(Report) : r.name = n

\* The *.txt entries of the directory and their stems.
TxtEntries == {e \in Range(dir) : EndsWith(e.name, ext_txt)}
StemOf(e)  == SubSeq(e.name, 1, Len(e.name) - Len(ext_txt))
Stems      == {StemOf(e) : e \in TxtEntries}
MissingStds == {k \in 1..4 : StdNames[k] \notin Stems}

\* Row i of a cleaned frame lies in window w: lo <= i/60 <= hi.
TimeIn(i, w) ==
    /\ w.lo.num * CyclesPerMin <= i * w.lo.den
    /\ i * w.hi.den <= w.hi.num * CyclesPerMin

\* No row of f lies in window w.  The rows are 0..len-1 and every window holds
\* a whole cycle, so this is: the last row comes before the window opens.
NoRowIn(f, w) == (f.len - 1) * w.lo.den < w.lo.num * CyclesPerMin

\* The same, row by row.
NoRowInByScan(f, w) == \A i \in 0..(f.len - 1) : ~TimeIn(i, w)

\* v is a cell of a row of f inside window w.
FromWindow(v, f, w) ==
    \E i \in 0..(f.len - 1) :
        TimeIn(i, w) /\ \E c \in DOMAIN f.cols : RowCells(f, i)[c] = v

HasEmptyWindow(f) == \E a \in Anions : NoRowIn(f, WinOf(a))

\* The conductance values (first column) of the rows of f inside window w.
SpCondIn(f, w) ==
    {RowCells(f, i)[1] : i \in {j \in 0..(f.len - 1) : TimeIn(j, w)}}

IsMaxOf(v, S) == v \in S /\ \A x \in S : x <= v

-----------------------------------------------------------------------------
(* C1.  Peak extraction returns the largest conductance value among the    *)
(* rows with a <= t <= b, and nothing else: stated for the peaks of the    *)
(* standards when the fits start and for the peaks of all samples when     *)
(* prediction starts.  The script takes the maximum over ALL columns of    *)
(* those rows, so a trace with a second column breaks the statement.       *)
C1_PeakIsWindowMaxOfSpCond ==
    /\ pc = "fit_cl" =>
          \A k \in 1..4, a \in Anions :
              IsMaxOf(CalOf(a)[k], SpCondIn(stds_data[k], WinOf(a)))
    /\ pc = "predict_cl" =>
          \A k \in DOMAIN data, a \in Anions :
              IsMaxOf(UnkOf(a)[k], SpCondIn(data[k], WinOf(a)))


\* What the script does instead: the largest cell of any column of the rows
\* with a <= t <= b, both ends included (equal to the above for a trace whose
\* only column is the conductance).
CellsIn(f, w) ==
    {RowCells(f, i)[c] : i \in {j \in 0..(f.len - 1) : TimeIn(j, w)},
                         c \in DOMAIN f.cols}

PeakIsWindowMaxOfAllColumns ==
    /\ pc = "fit_cl" =>
          \A k \in 1..4, a \in Anions :
              IsMaxOf(CalOf(a)[k], CellsIn(stds_data[k], WinOf(a)))
    /\ pc = "predict_cl" =>
          \A k \in DOMAIN data, a \in Anions :
              IsMaxOf(UnkOf(a)[k], CellsIn(data[k], WinOf(a)))

-----------------------------------------------------------------------------
(* C2.  In the written report, for every sample and every anion, the       *)
(* comment is 'below std1' exactly when the predicted ppm of that sample   *)
(* and anion is strictly below 2.5, and is empty otherwise (at 2.5 and     *)
(* above).                                                                 *)
C2_CommentIffBelow ==
    Written =>
        \A r \in Range(Report), a \in Anions :
            /\ CommIn(r, a) \in {"below std1", ""}
            /\ CommIn(r, a) = "below std1" <=> RLess(PpmIn(r, a), Rat(5, 2))

\* A report with a sample predicted at exactly 2.5 (no comment), one strictly
\* below (commented), and a row commented for Cl but not for NO3.
C2_Witness ==
    /\ Written
    /\ \E r \in Range(Report) : r.Cl_ppm = Rat(5, 2) /\ r.Comm_Cl = ""
    /\ \E r \in Range(Report) :
          /\ RLess(r.Cl_ppm, Rat(5, 2)) /\ r.Comm_Cl = "below std1"
          /\ ~RLess(r.NO3_ppm, Rat(5, 2)) /\ r.Comm_NO3 = ""

-----------------------------------------------------------------------------
(* C3.  The rows of the written table are in strictly ascending            *)
(* lexicographic order of sample name, whatever the discovery order was.   *)
C3_ReportSorted ==
    Written =>
        \A i, j \in DOMAIN Report :
            i < j => StrLess(Report[i].name, Report[j].name)

\* A report of five samples whose discovery order was not the sorted one: the
\* last name discovered sorts first, and std10 lies between std1 and std2.
C3_Witness ==
    /\ Written
    /\ Len(Report) = 5
    /\ samples[5] = Report[1].name
    /\ \E i \in 1..4 : /\ Report[i].name = std1
                       /\ Report[i + 1].name = u_std10

-----------------------------------------------------------------------------
(* C4.  When, for an anion, the points (peak of std k, known concentration *)
(* k) of the four standards, taken by NAME, lie on one line, every         *)
(* sample's predicted concentration is that line's value at the sample's   *)
(* peak; so a sample whose peak equals std2's gets 5 ppm and no comment.   *)

\* The peak of the standard named std k, as reported.
StdPeakByName(k, a) == PeakIn(ReportRow(StdNames[k]), a)

\* The points (x[k], stds_known[k]) lie on one (non-vertical) line.
Collinear(x) ==
    /\ x[1] # x[2]
    /\ \A k \in 3..4 :
          RMul(RSub(stds_known[k], stds_known[1]), RInt(x[2] - x[1]))
              = RMul(RSub(stds_known[2], stds_known[1]), RInt(x[k] - x[1]))

\* The value at p of the line through the points of std1 and std2.
LineAt(x, p) ==
    RAdd(stds_known[1],
         RDiv(RMul(RSub(stds_known[2], stds_known[1]), RInt(p - x[1])),
              RInt(x[2] - x[1])))

C4_ExactOnCollinearStandards ==
    Written =>
        \A a \in Anions :
            LET x == [k \in 1..4 |-> StdPeakByName(k, a)]
            IN  Collinear(x) =>
                    \A r \in Range(Report) :
                        /\ PpmIn(r, a) = LineAt(x, PeakIn(r, a))
                        /\ PeakIn(r, a) = x[2] =>
                              /\ PpmIn(r, a) = RInt(5)
                              /\ CommIn(r, a) = ""

\* A report where the Cl standards are on a line, std3 was discovered before
\* std1, and an unknown has std2's Cl peak.
C4_Witness ==
    /\ Written
    /\ Collinear([k \in 1..4 |-> StdPeakByName(k, "Cl")])
    /\ stds_indeces[3] < stds_indeces[1]
    /\ \E r \in Range(Report) :
          /\ r.name \notin StdStems
          /\ r.Cl_peak = StdPeakByName(2, "Cl")
          /\ r.Cl_ppm = RInt(5)

-----------------------------------------------------------------------------
(* C5.  As claimed: in a written report, a sample that is not a standard   *)
(* and whose peak is below std1's peak for all three anions carries        *)
(* 'below std1' in all three comment columns.  (Stated for the runs whose  *)
(* standards show at least two distinct peaks per anion; C6 is about the   *)
(* others.)                                                                *)
BelowStd1Peaks(r) == \A a \in Anions : PeakIn(r, a) < StdPeakByName(1, a)

C5_Original ==
    (Written /\ \A a \in Anions : Cardinality(Range(CalOf(a))) >= 2) =>
        \A r \in Range(Report) :
            (r.name \notin StdStems /\ BelowStd1Peaks(r)) =>
                \A a \in Anions : CommIn(r, a) = "below std1"

\* The fitted line of anion a rises with the peak height and gives at most
\* 2.5 at std1's peak height.
RisingThroughStd1(a) ==
    /\ CurveOf(a).coef.num > 0
    /\ ~RLess(Rat(5, 2), PpmIn(ReportRow(std1), a))

(* C5, amended.  For each anion whose fitted line rises and gives at most  *)
(* 2.5 at std1's peak, every sample with a peak below std1's peak carries  *)
(* 'below std1' for that anion; and a run ends in an error only for a      *)
(* missing standard or an empty window, never for a low peak.              *)
C5_BelowStd1OnRisingLine ==
    /\ Written =>
          \A a \in Anions :
              RisingThroughStd1(a) =>
                  \A r \in Range(Report) :
                      PeakIn(r, a) < StdPeakByName(1, a) =>
                          CommIn(r, a) = "below std1"
    /\ pc = "error" =>
          \/ err.at = "lookup" /\ MissingStds # {}
          \/ /\ err.at = "std_peak"
             /\ NoRowIn(stds_data[it + 1], WinOf(err.anion))
          \/ /\ err.at = "unk_peak"
             /\ NoRowIn(data[it + 1], WinOf(err.anion))

\* A finished run whose unknown is below std1 for all three anions and is
\* commented three times.
C5_Witness ==
    /\ pc = "done"
    /\ err = NoErr
    /\ \A a \in Anions : RisingThroughStd1(a)
    /\ \E r \in Range(Report) :
          /\ r.name \notin StdStems
          /\ BelowStd1Peaks(r)
          /\ \A a \in Anions : CommIn(r, a) = "below std1"

-----------------------------------------------------------------------------
(* C6.  As claimed: when the four standards' peaks of an anion hold fewer  *)
(* than two distinct values, no concentration is predicted from that       *)
(* anion's curve and no report is written.  The script fits slope 0 and    *)
(* intercept 9.375 instead and goes on.                                    *)
Degenerate(a) == Len(CalOf(a)) = 4 /\ Cardinality(Range(CalOf(a))) < 2

C6_DegenerateFitFails ==
    \A a \in Anions :
        Degenerate(a) => ConcOf(a) = << >> /\ ~Written /\ pc # "done"

-----------------------------------------------------------------------------
(* C7.  A sample with no row inside one of the three windows stops the     *)
(* run at its peak extraction: the fits start only when no standard has an *)
(* empty window, prediction starts and the report is written only when no  *)
(* sample has one, every peak handed on is a value of an in-window row,    *)
(* and the error of a peak loop is raised for a window that is empty, with *)
(* nothing predicted from the peaks of that loop and nothing written.      *)
C7_EmptyWindowAborts ==
    /\ pc = "fit_cl" =>
          \A k \in 1..4, a \in Anions :
              /\ ~NoRowInByScan(stds_data[k], WinOf(a))
              /\ FromWindow(CalOf(a)[k], stds_data[k], WinOf(a))
    /\ pc = "predict_cl" =>
          \A k \in DOMAIN data, a \in Anions :
              /\ ~NoRowInByScan(data[k], WinOf(a))
              /\ FromWindow(UnkOf(a)[k], data[k], WinOf(a))
    /\ (\E a \in Anions : CurveOf(a).fitted) =>
          \A k \in 1..4 : ~HasEmptyWindow(stds_data[k])
    /\ ((\E a \in Anions : ConcOf(a) # << >>) \/ results # << >> \/ Written) =>
          \A k \in DOMAIN data : ~HasEmptyWindow(data[k])
    /\ Written => pc = "done"
    /\ (pc = "error" /\ err.at = "std_peak") =>
          /\ NoRowIn(stds_data[it + 1], WinOf(err.anion))
          /\ err.name = StdNames[it + 1]
          /\ \A a \in Anions : ~CurveOf(a).fitted /\ ConcOf(a) = << >>
    /\ (pc = "error" /\ err.at = "unk_peak") =>
          /\ NoRowIn(data[it + 1], WinOf(err.anion))
          /\ err.name = samples[it + 1]
          /\ \A a \in Anions : ConcOf(a) = << >>
          /\ results = << >>

\* The run stopped at the unknown's NO3 peak (its trace ends before minute 9)
\* after its Cl peak was taken and all three curves were fitted.
C7_Witness ==
    /\ pc = "error"
    /\ err = EmptyMax("unk_peak", u_a, "NO3")
    /\ Len(cl_unk) = Len(no3_unk) + 1
    /\ CalibCurve_so4.fitted
    /\ ~Written

-----------------------------------------------------------------------------
(* C8.  When one of std1..std4 is not among the discovered samples, the    *)
(* run never gets past the lookup: no peak is extracted, no curve fitted,  *)
(* no report built or written, and the error it ends in is the lookup      *)
(* failure naming the first missing standard in the order std1..std4.      *)
C8_MissingStandardAborts ==
    MissingStds # {} =>
        /\ pc \in {"OutputList", "read", "housekeeping", "plot", "lookup", "error"}
        /\ stds_indeces = << >> /\ stds_data = << >>
        /\ \A a \in Anions :
              /\ CalOf(a) = << >> /\ UnkOf(a) = << >>
              /\ ~CurveOf(a).fitted
              /\ ConcOf(a) = << >> /\ CommOf(a) = << >>
        /\ results = << >> /\ ~Written
        /\ pc = "error" =>
              err = LookupError(
                  StdNames[CHOOSE k \in MissingStds : \A j \in MissingStds : k <= j])

\* std1 and std2 are there, std3 and std4 are not: the failure names std3,
\* after the charts were saved.
C8_Witness ==
    /\ pc = "error"
    /\ MissingStds = {3, 4}
    /\ err.name = std3
    /\ Len(plots) = 3

-----------------------------------------------------------------------------
(* C9.  The stages come in a fixed order and the report is all or nothing: *)
(* a curve is fitted only with the peaks of all four standards extracted,  *)
(* a concentration is predicted only with all three curves fitted, the     *)
(* spreadsheet is written at most once and only with every discovered      *)
(* sample read, cleaned, plotted, quantified and commented, and never in a *)
(* run that ended in an error.                                             *)
C9_StagesInOrder ==
    /\ \A a \in Anions :
          CurveOf(a).fitted => \A b \in Anions : Len(CalOf(b)) = 4
    /\ \A a \in Anions :
          ConcOf(a) # << >> =>
              /\ \A b \in Anions : CurveOf(b).fitted
              /\ \A b \in Anions : Len(UnkOf(b)) = Len(files)
    /\ \A a \in Anions :
          CommOf(a) # << >> => \A b \in Anions : Len(ConcOf(b)) = Len(files)
    /\ Len(xlsx) <= 1
    /\ Written =>
          /\ pc = "done" /\ err = NoErr
          /\ Len(files) = Cardinality(TxtEntries)
          /\ Len(data) = Len(files) /\ Len(plots) = Len(files)
          /\ \A k \in DOMAIN data :
                data[k].idx_div = CyclesPerMin /\ data[k].cols[1] = "SpCond"
          /\ \A a \in Anions :
                /\ Len(UnkOf(a)) = Len(files)
                /\ Len(ConcOf(a)) = Len(files)
                /\ Len(CommOf(a)) = Len(files)
          /\ Len(Report) = Len(files)
    /\ (pc = "error" \/ err # NoErr) => ~Written /\ pc = "error" /\ err # NoErr

\* A finished run over six files with its one spreadsheet.
C9_Witness ==
    /\ pc = "done"
    /\ Len(xlsx) = 1
    /\ Len(files) = 5
    /\ Len(dir) = 6

-----------------------------------------------------------------------------
(* C10.  The written table has exactly one row per discovered file, and    *)
(* the row named s holds the peaks of the trace of the file s.txt, the     *)
(* concentrations predicted from those peaks and the comments of those     *)
(* concentrations; the parallel lists have one length throughout.          *)

\* The peak of the trace in directory entry e, for anion a.
PeakOfEntry(e, a) == np_max(LocValues(Housekeep(read_csv(e.body)), WinOf(a)))

C10_RowsBelongToTheirFiles ==
    /\ Len(samples) = Len(files)
    /\ \A a \in Anions : Len(UnkOf(a)) <= Len(data) /\ Len(data) <= Len(files)
    /\ Written =>
          /\ Len(Report) = Cardinality(TxtEntries)
          /\ \A e \in TxtEntries :
                /\ Cardinality({i \in DOMAIN Report : Report[i].name = StemOf(e)}) = 1
                /\ \A a \in Anions :
                      LET r == ReportRow(StemOf(e))
                      IN  /\ PeakIn(r, a) = PeakOfEntry(e, a)
                          /\ PpmIn(r, a) = Predict(CurveOf(a), << PeakIn(r, a) >>)[1]
                          /\ CommIn(r, a) = Comment(PpmIn(r, a))

\* A report whose rows were moved by the sort and differ from each other.
C10_Witness ==
    /\ Written
    /\ Len(Report) = 5
    /\ Report[1].name # samples[1]
    /\ Report[5].name # samples[5]
    /\ \A i, j \in DOMAIN Report : i # j => Report[i].Cl_peak # Report[j].Cl_peak

=============================================================================
